---- MODULE Spec2Model ----
(***************************************************************************)
(* Hermes execution engine: the worker pool (engine.WorkerPool), the       *)
(* execution store (store.Store) and the per-job protocol                  *)
(* (WorkerPool.process), as a state machine.                               *)
(*                                                                         *)
(* Every store call is one atomic step (one SQL statement); the steps of   *)
(* different workers interleave freely.  A store call may fail with a      *)
(* storage error at any time (lost connection, timeout), and it fails when *)
(* the context it is issued under is already done; a failed statement has  *)
(* changed nothing.                                                        *)
(***************************************************************************)
EXTENDS Integers, Sequences, FiniteSets, Bags, TLC

(* ---------------------------------------------------------------- bounds *)
\* number of jobs the Job Source delivers in one behaviour
MaxJobs == 2
\* WorkerPool.MaxWorkers, the configured number of workers
MaxWorkers == 2
\* capacity of WorkerPool.JobQueue: make(chan Job, 100)
QueueCap == 100
\* number of jobs the Job Source delivers in one behaviour of the queue specification:
\* more than the queue's capacity
MaxSent == 101

Workers == 1..MaxWorkers
JobIds == 1..MaxJobs

(* ------------------------------------------------------------- fixtures *)
\* SQL NULL
NULL == "<NULL>"

\* relay ids of the relays table; "r3" is inactive
RelayIDs == {"r1", "r2", "r3"}
\* event ids a delivery may carry; "" is the empty event id
EventIDs == {"", "e1"}
\* payloads a delivery may carry
Payloads == {"p1"}

\* relays(id, is_active)
InitRelays == [r \in RelayIDs |-> r # "r3"]

\* relay_actions(relay_id, order_index, action_type), UNIQUE(relay_id, order_index)
InitRelayActions ==
    { [relay_id |-> "r1", order_index |-> 7, action_type |-> "debug_log"],
      [relay_id |-> "r1", order_index |-> 2, action_type |-> "slack_send"],
      [relay_id |-> "r2", order_index |-> 1, action_type |-> "debug_log"],
      [relay_id |-> "r2", order_index |-> 2, action_type |-> "sms_send"],
      [relay_id |-> "r2", order_index |-> 3, action_type |-> "slack_send"],
      [relay_id |-> "r3", order_index |-> 1, action_type |-> "debug_log"] }

\* the action types the Registry holds an executor for
RegisteredTypes == {"slack_send", "discord_send", "debug_log"}

(* ---------------------------------------------------------------- state *)
VARIABLES
    relays,            \* table relays: id -> is_active
    relay_actions,     \* table relay_actions: set of rows
    processed_events,  \* table processed_events: set of <<relay_id, event_id>>
    execution_logs,    \* table execution_logs: bag of rows (ids and timestamps left out)
    jobs,              \* the Jobs the Job Source has produced, by job number
    ackedBefore,       \* Job Source: per job, the jobs already acknowledged when it was produced
    JobQueue,          \* wp.JobQueue: the buffered job numbers, oldest first
    closed,            \* close(wp.JobQueue) has happened
    cancelled,         \* wp.ctx is done
    started,           \* Start has spawned the workers
    shutdownPc,        \* position of the Shutdown call
    pc,                \* position of each worker goroutine
    cur,               \* the job a worker holds (0: none)
    actions,           \* process: the fetched action list
    idx,               \* process: position in the action list (1-based)
    err,               \* process: the named result err
    trace,             \* per job: the calls made for it, in order
    seen,              \* per job: whether Shutdown had been called when the job was
                       \* sent, whether wp.ctx was done when it was received, and
                       \* whether it was when the job's audit write was issued
    cfg,               \* Sender.Execute: what the cfg argument holds under "webhook_url"
    execCtxDone,       \* Sender.Execute: its ctx argument is done
    epc,               \* Sender.Execute: position of the call
    attempt,           \* Sender.Execute: the loop variable (0-based)
    lastErr,           \* Sender.Execute: lastErr, as its text ("" : nil)
    posts,             \* Sender.Execute: the status of every POST made (0: no response)
    sleeps,            \* Sender.Execute: the time.Sleep calls made, in milliseconds
    ret,               \* Sender.Execute: the returned error's text ("nil": nil)
    responses          \* hermes-core API: the requests answered so far, each with
                       \* what the relay store returned and what the handler wrote

dbVars == <<relays, relay_actions, processed_events, execution_logs>>
srcVars == <<jobs, ackedBefore>>
poolVars == <<JobQueue, closed, cancelled, started, shutdownPc>>
wVars == <<pc, cur, actions, idx, err>>
vars == <<relays, relay_actions, processed_events, execution_logs, jobs,
          ackedBefore, JobQueue, closed, cancelled, started, shutdownPc,
          pc, cur, actions, idx, err, trace, seen,
          cfg, execCtxDone, epc, attempt, lastErr, posts, sleeps, ret, responses>>
\* the state of the engine and the state of one Sender.Execute call
engineVars == <<relays, relay_actions, processed_events, execution_logs, jobs,
                ackedBefore, JobQueue, closed, cancelled, started, shutdownPc,
                pc, cur, actions, idx, err, trace, seen>>
slackVars == <<cfg, execCtxDone, epc, attempt, lastErr, posts, sleeps, ret>>
apiVars == <<responses>>

(* --------------------------------------------------------------- errors *)
\* a Go error value: what failed, and for an action failure which action
Err(kind, type, order) == [kind |-> kind, type |-> type, order |-> order]
NoErr == Err("nil", "", 0)
\* RegisterEvent: fmt.Errorf("dedupe insert failed: %w", err)
DedupeErr == Err("dedupe insert failed", "", 0)
\* GetRelayActions: fmt.Errorf("db error: %w", err)
FetchErr == Err("db error", "", 0)
\* store.ErrNoActions
ErrNoActions == Err("no actions configured for relay", "", 0)
\* Registry.Get: the not-found error for an unknown action type
PluginErr(type) == Err("unknown action type", type, 0)
\* process: fmt.Errorf("action %s (order %d) failed: %w", ...)
ExecErr(type, order) == Err("action failed", type, order)

\* err.Error()
ErrorText(e) ==
    IF e.kind = "action failed"
    THEN "action " \o e.type \o " (order " \o ToString(e.order) \o ") failed: executor error"
    ELSE IF e.kind = "unknown action type"
    THEN "unknown action type: " \o e.type
    ELSE e.kind

(* ---------------------------------------------------------------- trace *)
Ev(op, order, res) == [op |-> op, order |-> order, res |-> res]
\* the calls es are made for job j
Record(j, es) == trace' = [trace EXCEPT ![j] = @ \o es]

(* ----------------------------------------------------------------- Init *)
\* no Sender.Execute call is followed
NoExecuteCall ==
    /\ cfg = [present |-> FALSE, type |-> "", val |-> ""]
    /\ execCtxDone = FALSE
    /\ epc = "none"
    /\ attempt = 0
    /\ lastErr = ""
    /\ posts = <<>>
    /\ sleeps = <<>>
    /\ ret = ""

\* no request has been answered by the hermes-core API
NoRequest == responses = <<>>

\* the state after NewWorkerPool, for the job numbers ids
InitWith(ids) ==
    /\ relays = InitRelays
    /\ relay_actions = InitRelayActions
    /\ processed_events = {}
    /\ execution_logs = EmptyBag
    /\ jobs = <<>>
    /\ ackedBefore = <<>>
    /\ JobQueue = <<>>
    /\ closed = FALSE
    /\ cancelled = FALSE
    /\ started = FALSE
    /\ shutdownPc = "idle"
    /\ pc = [w \in Workers |-> "unstarted"]
    /\ cur = [w \in Workers |-> 0]
    /\ actions = [w \in Workers |-> <<>>]
    /\ idx = [w \in Workers |-> 0]
    /\ err = [w \in Workers |-> NoErr]
    /\ trace = [j \in ids |-> <<>>]
    /\ seen = [j \in ids |-> [sent |-> FALSE, recv |-> FALSE, log |-> FALSE]]

Init == InitWith(JobIds) /\ NoExecuteCall /\ NoRequest

(* ------------------------------------------------------------ Job Source *)
\* the boolean a job's MsgAck was called with: "true", "false", or "none"
Acked(j) ==
    IF \E i \in 1..Len(trace[j]) : trace[j][i].op = "MsgAck"
    THEN (CHOOSE e \in {trace[j][i] : i \in 1..Len(trace[j])} : e.op = "MsgAck").res
    ELSE "none"

\* (mutant) the buffer takes any number of jobs: a send never blocks
QueueFullNever(q) == FALSE

\* the buffer of wp.JobQueue holds cap(wp.JobQueue) jobs
QueueFull(q) == Len(q) >= QueueCap

\* wp.JobQueue <- job, for the next of at most limit jobs: the send blocks while the
\* buffer is full (a send on a closed channel panics: the Job Source has stopped by then)
Send(job, limit) ==
    /\ Len(jobs) < limit
    /\ ~closed
    /\ ~QueueFull(JobQueue)
    /\ jobs' = Append(jobs, job)
    /\ JobQueue' = Append(JobQueue, Len(jobs) + 1)
    /\ seen' = [seen EXCEPT ![Len(jobs) + 1].sent = (shutdownPc # "idle")]
    /\ UNCHANGED <<dbVars, closed, cancelled, started, shutdownPc, wVars, trace>>
    /\ UNCHANGED slackVars
    /\ UNCHANGED apiVars

\* the Job Source delivers a message: a send on wp.JobQueue, which blocks while the
\* buffer is full.  Delivery is at least once: the same (relay id, event id) may come
\* again, at any time, and after a MsgAck(false) that is the redelivery.
Submit(r, e, p) ==
    /\ Send([RelayID |-> r, EventID |-> e, Payload |-> p], MaxJobs)
    /\ ackedBefore' = Append(ackedBefore, {j \in 1..Len(jobs) : Acked(j) # "none"})

(* ----------------------------------------------------------- WorkerPool *)
\* (mutant) for i := 1; i < wp.MaxWorkers; i++
SpawnedOneLess == 2..MaxWorkers

\* the worker goroutines Start spawns: for i := 0; i < wp.MaxWorkers; i++
Spawned == 1..MaxWorkers

\* Start: wp.ctx, wp.cancel = context.WithCancel(ctx); go wp.worker(ctx, i) x MaxWorkers.
\* Start waits for nothing: not for a job and not for the workers.  The pool's owner
\* calls it once, and not on a pool it has shut down.
Start ==
    /\ ~started
    /\ shutdownPc = "idle"
    /\ started' = TRUE
    /\ cancelled' = FALSE
    /\ pc' = [w \in Workers |-> IF w \in Spawned THEN "select" ELSE "unstarted"]
    /\ UNCHANGED <<dbVars, srcVars, JobQueue, closed, shutdownPc,
                   cur, actions, idx, err, trace, seen>>
    /\ UNCHANGED slackVars
    /\ UNCHANGED apiVars

\* the context given to Start is cancelled by its owner: wp.ctx, derived from it by
\* context.WithCancel(ctx), is done
ParentCancel ==
    /\ started
    /\ ~cancelled
    /\ cancelled' = TRUE
    /\ UNCHANGED <<dbVars, srcVars, JobQueue, closed, started, shutdownPc, wVars, trace,
                   seen>>
    /\ UNCHANGED slackVars
    /\ UNCHANGED apiVars

\* Shutdown: if wp.cancel != nil { wp.cancel() }
ShutdownCancel ==
    /\ shutdownPc = "idle"
    /\ shutdownPc' = "cancel"
    /\ cancelled' = (started \/ cancelled)
    /\ UNCHANGED <<dbVars, srcVars, JobQueue, closed, started, wVars, trace, seen>>
    /\ UNCHANGED slackVars
    /\ UNCHANGED apiVars

\* Shutdown: close(wp.JobQueue)
ShutdownClose ==
    /\ shutdownPc = "cancel"
    /\ shutdownPc' = "wait"
    /\ closed' = TRUE
    /\ UNCHANGED <<dbVars, srcVars, JobQueue, cancelled, started, wVars, trace, seen>>
    /\ UNCHANGED slackVars
    /\ UNCHANGED apiVars

\* (mutant) Shutdown does not wait for the workers
WaitGroupZeroNoWait(p) == TRUE

\* the wait group's counter is zero: every spawned worker has run its deferred
\* wp.wg.Done()
WaitGroupZero(p) == \A w \in Workers : p[w] \in {"unstarted", "exited"}

\* Shutdown: wp.wg.Wait() returns once every spawned worker has returned
ShutdownWait ==
    /\ shutdownPc = "wait"
    /\ WaitGroupZero(pc)
    /\ shutdownPc' = "done"
    /\ UNCHANGED <<dbVars, srcVars, JobQueue, closed, cancelled, started, wVars, trace,
                   seen>>
    /\ UNCHANGED slackVars
    /\ UNCHANGED apiVars

(* --------------------------------------------------------------- worker *)
\* select: case <-wp.ctx.Done(): return
WorkerDone(w) ==
    /\ pc[w] = "select"
    /\ cancelled
    /\ pc' = [pc EXCEPT ![w] = "exited"]
    /\ UNCHANGED <<dbVars, srcVars, poolVars, cur, actions, idx, err, trace, seen>>
    /\ UNCHANGED slackVars
    /\ UNCHANGED apiVars

\* select: case job, ok := <-wp.JobQueue with !ok: the queue is closed and drained
WorkerQueueClosed(w) ==
    /\ pc[w] = "select"
    /\ closed
    /\ JobQueue = <<>>
    /\ pc' = [pc EXCEPT ![w] = "exited"]
    /\ UNCHANGED <<dbVars, srcVars, poolVars, cur, actions, idx, err, trace, seen>>
    /\ UNCHANGED slackVars
    /\ UNCHANGED apiVars

\* (mutant) the receive case is not taken once wp.ctx is done
RecvReadyUnlessDone(q, done) == q # <<>> /\ ~done

\* the receive case of the select is ready: a job is buffered.  The select has no
\* priority between its cases: wp.ctx being done does not disable this one.
RecvReady(q, done) == q # <<>>

\* (mutant) the dedup gate is entered for every job
ProcessEntryAlwaysGate(eventID) == "register"

\* (mutant) the actions are fetched before the dedup gate is asked
ProcessEntryFetchFirst(eventID) == "fetch"

\* process: if job.EventID != "" the dedup gate comes first, else the deferred log is
\* set up and the fetch follows
ProcessEntry(eventID) == IF eventID # "" THEN "register" ELSE "fetch"

\* (mutant) a receive takes the job sent last
RecvNewest(q) == <<q[Len(q)], SubSeq(q, 1, Len(q) - 1)>>
\* job, ok := <-wp.JobQueue on a buffered channel: the job received and the buffer
\* afterwards
Recv(q) == <<Head(q), Tail(q)>>

\* select: case job, ok := <-wp.JobQueue with ok; wp.process(wp.ctx, job, ...) is
\* entered
WorkerRecv(w) ==
    /\ pc[w] = "select"
    /\ RecvReady(JobQueue, cancelled)
    /\ cur' = [cur EXCEPT ![w] = Recv(JobQueue)[1]]
    /\ JobQueue' = Recv(JobQueue)[2]
    /\ pc' = [pc EXCEPT ![w] = ProcessEntry(jobs[Recv(JobQueue)[1]].EventID)]
    /\ seen' = [seen EXCEPT ![Recv(JobQueue)[1]].recv = cancelled]
    /\ UNCHANGED <<dbVars, srcVars, closed, cancelled, started, shutdownPc,
                   actions, idx, err, trace>>
    /\ UNCHANGED slackVars
    /\ UNCHANGED apiVars

(* ---------------------------------------------------------------- store *)
\* (mutant) the marker is not stored
InsertProcessedEventLost(tbl, relayID, eventID) == tbl

\* INSERT INTO processed_events ... ON CONFLICT DO NOTHING: the table afterwards
InsertProcessedEvent(tbl, relayID, eventID) == tbl \cup {<<relayID, eventID>>}

\* (mutant) the insert reports a row also on a conflict
RowsAffectedNoConflict(tbl, relayID, eventID) == 1

\* (mutant) the key is the event id alone
RowsAffectedByEventOnly(tbl, relayID, eventID) ==
    IF \E m \in tbl : m[2] = eventID THEN 0 ELSE 1

\* tag.RowsAffected() of that insert: 0 on a conflict with PRIMARY KEY (relay_id, event_id)
RowsAffected(tbl, relayID, eventID) ==
    IF <<relayID, eventID>> \in tbl THEN 0 ELSE 1

\* (mutant) the rows are served from a copy of the tables taken at start
SelectActionsAtStart(rel, acts, relayID) ==
    {a \in InitRelayActions : a.relay_id = relayID /\ InitRelays[relayID]}

\* the rows of: relays r JOIN relay_actions a ON r.id = a.relay_id
\*              WHERE r.id = $1 AND r.is_active = true
SelectActions(rel, acts, relayID) ==
    {a \in acts : a.relay_id = relayID /\ relayID \in DOMAIN rel /\ rel[relayID]}

\* (mutant) ORDER BY a.order_index DESC
RECURSIVE OrderByIndexDesc(_)
OrderByIndexDesc(rows) ==
    IF rows = {} THEN <<>>
    ELSE LET first == CHOOSE a \in rows : \A b \in rows : a.order_index >= b.order_index
         IN <<[OrderIndex |-> first.order_index, ActionType |-> first.action_type]>>
                \o OrderByIndexDesc(rows \ {first})

\* ORDER BY a.order_index ASC: the rows as a sequence
RECURSIVE OrderByIndex(_)
OrderByIndex(rows) ==
    IF rows = {} THEN <<>>
    ELSE LET first == CHOOSE a \in rows : \A b \in rows : a.order_index <= b.order_index
         IN <<[OrderIndex |-> first.order_index, ActionType |-> first.action_type]>>
                \o OrderByIndex(rows \ {first})

\* LogExecution(ctx, relayID, eventID, status, details, payload): the row it inserts
LogExecutionRow(relayID, eventID, status, details, payload) ==
    [relay_id      |-> relayID,
     event_id      |-> eventID,
     status        |-> status,
     payload       |-> IF payload # "" THEN payload ELSE NULL,
     error_message |-> IF status # "success" /\ details # "" THEN details ELSE NULL]

(* ------------------------------------------------------------- registry *)
\* Registry.Get(actionType) finds an executor
RegistryHas(type) == type \in RegisteredTypes

(* -------------------------------------------------------------- process *)
Job(w) == jobs[cur[w]]

\* the context process hands to RegisterEvent, GetRelayActions and the executors is
\* wp.ctx: worker calls wp.process(wp.ctx, job, ...)
ProcessCtxDone == cancelled

\* (mutant) the deferred log is issued under process's ctx
LogCtxDoneWithPool == cancelled

\* the context of the deferred log is context.WithTimeout(context.Background(), 3s):
\* it is not derived from wp.ctx, so the pool's cancellation never makes it done
LogCtxDone == FALSE

\* Store.RegisterEvent's isNew when the insert did not fail
RegisterEventIsNew(tbl, relayID, eventID) ==
    IF eventID = "" THEN TRUE ELSE RowsAffected(tbl, relayID, eventID) > 0

\* (mutant) a duplicate is not returned early
AfterRegisterEventNoSkip(isNew, failed) ==
    IF failed THEN "ack" ELSE "fetch"

\* (mutant) the deferred log is in place before the dedup gate
AfterRegisterEventDeferFirst(isNew, failed) ==
    IF failed THEN "defer" ELSE IF ~isNew THEN "defer" ELSE "fetch"

\* (mutant) dedupeErr is not checked
AfterRegisterEventNoErrCheck(isNew, failed) ==
    IF failed THEN "fetch" ELSE IF ~isNew THEN "ack" ELSE "fetch"

\* process, after RegisterEvent: return dedupeErr (no deferred log is in place yet),
\* return nil for a duplicate, or go on to the deferred log and the fetch
AfterRegisterEvent(isNew, failed) ==
    IF failed THEN "ack" ELSE IF ~isNew THEN "ack" ELSE "fetch"

\* process: isNew, dedupeErr := wp.Store.RegisterEvent(ctx, job.RelayID, job.EventID)
RegisterEvent(w) ==
    /\ pc[w] = "register"
    /\ IF Job(w).EventID = ""
       THEN \* RegisterEvent: if eventID == "" { return true, nil }
            /\ pc' = [pc EXCEPT ![w] = AfterRegisterEvent(TRUE, FALSE)]
            /\ Record(cur[w], <<Ev("RegisterEvent", 0, "new")>>)
            /\ UNCHANGED <<processed_events, err>>
       ELSE \/ \* the insert fails: a storage error, or ctx is done
               /\ err' = [err EXCEPT ![w] = DedupeErr]
               /\ pc' = [pc EXCEPT ![w] = AfterRegisterEvent(FALSE, TRUE)]
               /\ Record(cur[w], <<Ev("RegisterEvent", 0, "err")>>)
               /\ UNCHANGED processed_events
            \/ /\ ~ProcessCtxDone
               /\ Job(w).RelayID \in DOMAIN relays   \* relay_id REFERENCES relays(id)
               /\ LET isNew == RegisterEventIsNew(processed_events,
                                                  Job(w).RelayID, Job(w).EventID)
                  IN /\ processed_events' = InsertProcessedEvent(processed_events,
                                                  Job(w).RelayID, Job(w).EventID)
                     /\ pc' = [pc EXCEPT ![w] = AfterRegisterEvent(isNew, FALSE)]
                     /\ Record(cur[w],
                               <<Ev("RegisterEvent", 0, IF isNew THEN "new" ELSE "dup")>>)
                     /\ UNCHANGED err
    /\ UNCHANGED <<relays, relay_actions, execution_logs, srcVars, poolVars,
                   cur, actions, idx, seen>>
    /\ UNCHANGED slackVars
    /\ UNCHANGED apiVars

\* (mutant) an empty result is returned as an empty list and no error
EmptyResultIsFine(acts) == FALSE

\* GetRelayActions: if len(actions) == 0 { return nil, ErrNoActions }
EmptyResult(acts) == Len(acts) = 0

\* process: actions, fetchErr := wp.Store.GetRelayActions(ctx, job.RelayID); an empty
\* list would leave the loop with nothing to do and process returns nil
GetRelayActions(w) ==
    /\ pc[w] = "fetch"
    /\ \/ \* query, scan or rows error, or ctx is done
          /\ err' = [err EXCEPT ![w] = FetchErr]
          /\ pc' = [pc EXCEPT ![w] = "defer"]
          /\ Record(cur[w], <<Ev("GetRelayActions", 0, "err")>>)
          /\ UNCHANGED <<actions, idx>>
       \/ /\ ~ProcessCtxDone
          /\ LET acts == OrderByIndex(SelectActions(relays, relay_actions, Job(w).RelayID))
             IN IF EmptyResult(acts)
                THEN /\ err' = [err EXCEPT ![w] = ErrNoActions]
                     /\ pc' = [pc EXCEPT ![w] = "defer"]
                     /\ Record(cur[w], <<Ev("GetRelayActions", 0, "noactions")>>)
                     /\ UNCHANGED <<actions, idx>>
                ELSE /\ actions' = [actions EXCEPT ![w] = acts]
                     /\ idx' = [idx EXCEPT ![w] = IF Len(acts) = 0 THEN 0 ELSE 1]
                     /\ pc' = [pc EXCEPT ![w] = IF Len(acts) = 0 THEN "defer" ELSE "loop"]
                     /\ Record(cur[w], <<Ev("GetRelayActions", Len(acts), "ok")>>)
                     /\ UNCHANGED err
    /\ UNCHANGED <<dbVars, srcVars, poolVars, cur, seen>>
    /\ UNCHANGED slackVars
    /\ UNCHANGED apiVars

\* loop body: executor, pluginErr := wp.Registry.Get(act.ActionType), then
\* executor.Execute(ctx, act.Config, job.Payload) is entered
ExecuteBegin(w) ==
    /\ pc[w] = "loop"
    /\ LET act == actions[w][idx[w]]
       IN IF RegistryHas(act.ActionType)
          THEN /\ pc' = [pc EXCEPT ![w] = "execute"]
               /\ Record(cur[w], <<Ev("Execute", act.OrderIndex, "begin")>>)
               /\ UNCHANGED err
          ELSE /\ err' = [err EXCEPT ![w] = PluginErr(act.ActionType)]
               /\ pc' = [pc EXCEPT ![w] = "defer"]
               /\ Record(cur[w], <<Ev("Get", act.OrderIndex, "notfound")>>)
    /\ UNCHANGED <<dbVars, srcVars, poolVars, cur, actions, idx, seen>>
    /\ UNCHANGED slackVars
    /\ UNCHANGED apiVars

\* (mutant) the loop goes on after a failed action
NextIndexNoAbort(acts, i, ok) == IF i < Len(acts) THEN i + 1 ELSE 0

\* where process goes after the executor at position i of acts returned ok or not:
\* the next position, or 0 when process returns
NextIndex(acts, i, ok) == IF ok /\ i < Len(acts) THEN i + 1 ELSE 0

\* executor.Execute returns: nil (next action, or return nil after the last one) or
\* an error (return the wrapped error at once)
ExecuteReturn(w, ok) ==
    /\ pc[w] = "execute"
    /\ LET act == actions[w][idx[w]]
           nxt == NextIndex(actions[w], idx[w], ok)
       IN /\ Record(cur[w], <<Ev("Execute", act.OrderIndex, IF ok THEN "ok" ELSE "err")>>)
          /\ err' = [err EXCEPT ![w] =
                        IF ok THEN NoErr ELSE ExecErr(act.ActionType, act.OrderIndex)]
          /\ idx' = [idx EXCEPT ![w] = IF nxt = 0 THEN @ ELSE nxt]
          /\ pc' = [pc EXCEPT ![w] = IF nxt = 0 THEN "defer" ELSE "loop"]
    /\ UNCHANGED <<dbVars, srcVars, poolVars, cur, actions, seen>>
    /\ UNCHANGED slackVars
    /\ UNCHANGED apiVars

\* the deferred function's status and details
Status(e) == IF e # NoErr THEN "failed" ELSE "success"
Details(e) == IF e # NoErr THEN ErrorText(e) ELSE "Relay executed successfully"

\* the deferred call:
\* wp.Store.LogExecution(logCtx, job.RelayID, status, details, job.EventID, job.Payload)
DeferredLogRow(job, e) ==
    LogExecutionRow(job.RelayID, Status(e), Details(e), job.EventID, job.Payload)

\* (mutant) the deferred function assigns logErr to the named result err
ErrAfterLogOverwritten(e, logFailed) == IF logFailed THEN FetchErr ELSE e

\* process's result after the deferred function ran: logErr is only logged, err is
\* not assigned
ErrAfterLog(e, logFailed) == e

\* (mutant) a failed job gives its marker back
MarkersAfterReturnReleased(tbl, job, e) ==
    IF e # NoErr THEN tbl \ {<<job.RelayID, job.EventID>>} ELSE tbl

\* processed_events after process returned with e: no return path of process and
\* no statement of the deferred function issues a DELETE, the marker stays
MarkersAfterReturn(tbl, job, e) == tbl

\* the deferred function runs as process returns.  The write fails with a storage
\* error or its 3 s timeout ("err"), or because its context is done already ("ctx").
LogExecution(w) ==
    /\ pc[w] = "defer"
    /\ IF LogCtxDone
       THEN /\ UNCHANGED execution_logs
            /\ Record(cur[w], <<Ev("LogExecution", 0, "ctx")>>)
            /\ err' = [err EXCEPT ![w] = ErrAfterLog(@, TRUE)]
       ELSE \/ /\ Job(w).RelayID \in DOMAIN relays   \* relay_id REFERENCES relays(id)
               /\ execution_logs' =
                     execution_logs (+) SetToBag({DeferredLogRow(Job(w), err[w])})
               /\ Record(cur[w], <<Ev("LogExecution", 0, "ok")>>)
               /\ err' = [err EXCEPT ![w] = ErrAfterLog(@, FALSE)]
            \/ /\ UNCHANGED execution_logs
               /\ Record(cur[w], <<Ev("LogExecution", 0, "err")>>)
               /\ err' = [err EXCEPT ![w] = ErrAfterLog(@, TRUE)]
    /\ processed_events' = MarkersAfterReturn(processed_events, Job(w), err[w])
    /\ pc' = [pc EXCEPT ![w] = "ack"]
    /\ seen' = [seen EXCEPT ![cur[w]].log = cancelled]
    /\ UNCHANGED <<relays, relay_actions, srcVars, poolVars, cur, actions, idx>>
    /\ UNCHANGED slackVars
    /\ UNCHANGED apiVars

\* (mutant) every job is acknowledged true
AckValueAlwaysTrue(e) == TRUE

\* worker: the boolean given to job.MsgAck: err == nil
AckValue(e) == e = NoErr

\* (mutant) the else is missing: MsgAck(true) follows MsgAck(false)
AckCallsNoElse(e) ==
    IF e # NoErr THEN <<Ev("MsgAck", 0, "false"), Ev("MsgAck", 0, "true")>>
    ELSE <<Ev("MsgAck", 0, "true")>>

\* worker: the MsgAck calls made for one job: if err != nil { MsgAck(false) } else
\* { MsgAck(true) }
AckCalls(e) == <<Ev("MsgAck", 0, IF AckValue(e) THEN "true" ELSE "false")>>

\* (mutant) the worker returns after a failed job
AfterAckReturnOnError(e) == IF e # NoErr THEN "exited" ELSE "select"

\* worker: after job.MsgAck the for loop goes round to the select, whatever err was
AfterAck(e) == "select"

\* worker: job.MsgAck(...), then back to the select
MsgAck(w) ==
    /\ pc[w] = "ack"
    /\ Record(cur[w], AckCalls(err[w]))
    /\ pc' = [pc EXCEPT ![w] = AfterAck(err[w])]
    /\ cur' = [cur EXCEPT ![w] = 0]
    /\ actions' = [actions EXCEPT ![w] = <<>>]
    /\ idx' = [idx EXCEPT ![w] = 0]
    /\ err' = [err EXCEPT ![w] = NoErr]
    /\ UNCHANGED <<dbVars, srcVars, poolVars, seen>>
    /\ UNCHANGED slackVars
    /\ UNCHANGED apiVars

(* ----------------------------------------------------------------- Next *)
Next ==
    \/ \E r \in RelayIDs, e \in EventIDs, p \in Payloads : Submit(r, e, p)
    \/ Start
    \/ ParentCancel
    \/ ShutdownCancel
    \/ ShutdownClose
    \/ ShutdownWait
    \/ \E w \in Workers : WorkerDone(w)
    \/ \E w \in Workers : WorkerQueueClosed(w)
    \/ \E w \in Workers : WorkerRecv(w)
    \/ \E w \in Workers : RegisterEvent(w)
    \/ \E w \in Workers : GetRelayActions(w)
    \/ \E w \in Workers : ExecuteBegin(w)
    \/ \E w \in Workers, ok \in BOOLEAN : ExecuteReturn(w, ok)
    \/ \E w \in Workers : LogExecution(w)
    \/ \E w \in Workers : MsgAck(w)

Spec == Init /\ [][Next]_vars

(* ------------------------------------------------- queue specification *)
\* The queue of the running pool on its own, with more deliveries than the buffer
\* holds.  What process does for a job is left out: the job of an inactive relay is
\* received, processed and acknowledged false.
InitQueue == InitWith(1..MaxSent) /\ NoExecuteCall /\ NoRequest

\* the Job Source delivers a message for the inactive relay, with no event id
SubmitQueue ==
    /\ Send([RelayID |-> "r3", EventID |-> "", Payload |-> "p1"], MaxSent)
    /\ UNCHANGED ackedBefore

\* worker: err := wp.process(wp.ctx, job, ...) returns ErrNoActions, job.MsgAck(false)
\* follows, and the worker is back at its select
ProcessAndAck(w) ==
    /\ cur[w] # 0
    /\ pc[w] = ProcessEntry(Job(w).EventID)
    /\ Record(cur[w], AckCalls(ErrNoActions))
    /\ pc' = [pc EXCEPT ![w] = AfterAck(ErrNoActions)]
    /\ cur' = [cur EXCEPT ![w] = 0]
    /\ UNCHANGED <<dbVars, srcVars, poolVars, actions, idx, err, seen>>
    /\ UNCHANGED slackVars
    /\ UNCHANGED apiVars

NextQueue ==
    \/ SubmitQueue
    \/ Start
    \/ \E w \in Workers : WorkerRecv(w)
    \/ \E w \in Workers : ProcessAndAck(w)

SpecQueue == InitQueue /\ [][NextQueue]_vars

(* ------------------------------------------------------------- fairness *)
\* one step of worker w's goroutine
WorkerStep(w) ==
    \/ WorkerDone(w)
    \/ WorkerQueueClosed(w)
    \/ WorkerRecv(w)
    \/ RegisterEvent(w)
    \/ GetRelayActions(w)
    \/ ExecuteBegin(w)
    \/ \E ok \in BOOLEAN : ExecuteReturn(w, ok)
    \/ LogExecution(w)
    \/ MsgAck(w)

\* one step of a Shutdown call that has begun
ShutdownStep == ShutdownClose \/ ShutdownWait

\* the scheduler runs every goroutine that can take a step, and every store call and
\* executor call returns: a worker that can step does, and so does a Shutdown call
\* that has begun.  Nothing obliges the owner to call Start or Shutdown, or the Job
\* Source to deliver.
FairSpec ==
    /\ Spec
    /\ \A w \in Workers : WF_vars(WorkerStep(w))
    /\ WF_vars(ShutdownStep)

(* ============================ properties =============================== *)
Submitted == 1..Len(jobs)
\* job j's trace holds a call of op with result res
Has(j, op, res) == \E i \in 1..Len(trace[j]) : trace[j][i].op = op /\ trace[j][i].res = res
\* the number of calls of op made for job j
Count(j, op) == Cardinality({i \in 1..Len(trace[j]) : trace[j][i].op = op})
\* the calls of op made for job j, in order
RECURSIVE Only(_, _)
Only(t, op) ==
    IF t = <<>> THEN <<>>
    ELSE IF Head(t).op = op THEN <<Head(t)>> \o Only(Tail(t), op) ELSE Only(Tail(t), op)
SamePair(j1, j2) ==
    jobs[j1].RelayID = jobs[j2].RelayID /\ jobs[j1].EventID = jobs[j2].EventID
\* the delivery obtained the dedup claim: RegisterEvent returned isNew = true
Claimed(j) == Has(j, "RegisterEvent", "new")
\* the delivery got past the dedup gate
PassedGate(j) == jobs[j].EventID = "" \/ Claimed(j)
\* the action chain of the delivery was started: its actions were asked for
ChainStarted(j) == Count(j, "GetRelayActions") > 0
\* nothing after the dedup gate was done for the delivery
NothingRun(j) ==
    /\ Count(j, "GetRelayActions") = 0
    /\ Count(j, "Get") = 0
    /\ Count(j, "Execute") = 0
    /\ Count(j, "LogExecution") = 0
\* every action of the fetched chain was executed and returned nil
ChainSucceeded(j) ==
    \E i \in 1..Len(trace[j]) :
        /\ trace[j][i].op = "GetRelayActions"
        /\ trace[j][i].res = "ok"
        /\ Cardinality({k \in 1..Len(trace[j]) :
             trace[j][k].op = "Execute" /\ trace[j][k].res = "ok"}) = trace[j][i].order
\* the job is held by a worker
HeldBy(j) == {w \in Workers : cur[w] = j}

(* C1: for every (relay id, event id) with a non-empty event id, whatever the number
   of deliveries and however the workers interleave, at most one delivery obtains
   the dedup claim, and the action chain is started for at most one delivery of the
   pair, the one that claimed, also when that attempt failed. *)
C1_AtMostOneClaim ==
    \A j1, j2 \in Submitted :
        (j1 # j2 /\ SamePair(j1, j2) /\ jobs[j1].EventID # "")
            => /\ ~(Claimed(j1) /\ Claimed(j2))
               /\ ~(ChainStarted(j1) /\ ChainStarted(j2))
               /\ (ChainStarted(j1) => Claimed(j1))

\* two copies of one pair were in flight together (neither was acknowledged when the
\* other was produced); one claimed and its attempt failed, the other was refused
C1_Witness ==
    \E j1, j2 \in Submitted :
        /\ j1 # j2 /\ SamePair(j1, j2) /\ jobs[j1].EventID # ""
        /\ j1 \notin ackedBefore[j2] /\ j2 \notin ackedBefore[j1]
        /\ Claimed(j1) /\ Acked(j1) = "false"
        /\ Has(j2, "RegisterEvent", "dup") /\ Acked(j2) = "true"

(* C2 (as stated): a delivery whose insert reports the marker present fetches no
   actions, invokes no executor, writes no audit record and is acknowledged true; and
   the same job submitted twice in sequence yields exactly one audit record and
   exactly one run of the action chain in total. *)
SkipPath(j) ==
    Has(j, "RegisterEvent", "dup") => (NothingRun(j) /\ Acked(j) \in {"none", "true"})
\* j2 was produced after j1 had been acknowledged, for the same pair, and is finished
TwiceInSequence(j1, j2) ==
    /\ j1 \in ackedBefore[j2]
    /\ SamePair(j1, j2)
    /\ jobs[j1].EventID # ""
    /\ Acked(j2) # "none"
AuditRecords(j) ==
    Cardinality({i \in 1..Len(trace[j]) :
        trace[j][i].op = "LogExecution" /\ trace[j][i].res = "ok"})
ChainRuns(j) ==
    Cardinality({i \in 1..Len(trace[j]) :
        trace[j][i].op = "GetRelayActions" /\ trace[j][i].res = "ok"})
C2_ExactlyOne ==
    /\ \A j \in Submitted : SkipPath(j)
    /\ \A j1, j2 \in Submitted :
         TwiceInSequence(j1, j2)
            => /\ AuditRecords(j1) + AuditRecords(j2) = 1
               /\ ChainRuns(j1) + ChainRuns(j2) = 1

(* C2 (amended): a delivery whose insert reports the marker present fetches no
   actions, invokes no executor, writes no audit record and is acknowledged true; and
   the same job submitted twice in sequence yields at most one audit record and at
   most one run of the action chain in total, with exactly one audit write attempted
   when one of the two deliveries obtained the claim and none otherwise. *)
C2_AtMostOne ==
    /\ \A j \in Submitted : SkipPath(j)
    /\ \A j1, j2 \in Submitted :
         TwiceInSequence(j1, j2)
            => /\ AuditRecords(j1) + AuditRecords(j2) <= 1
               /\ ChainRuns(j1) + ChainRuns(j2) <= 1
               /\ Count(j1, "LogExecution") + Count(j2, "LogExecution")
                    = IF Claimed(j1) \/ Claimed(j2) THEN 1 ELSE 0

\* the first submission ran the chain and was recorded, the second took the skip path
C2_Witness ==
    \E j1, j2 \in Submitted :
        /\ TwiceInSequence(j1, j2)
        /\ ChainSucceeded(j1) /\ AuditRecords(j1) = 1 /\ Acked(j1) = "true"
        /\ Has(j2, "RegisterEvent", "dup") /\ Acked(j2) = "true"
        /\ Len(trace[j2]) = 2

(* C3: within one job the executors are invoked in strictly ascending order-index
   order, one at a time: the fetched list is strictly ascending, the invocations made
   so far are its first positions in order, an invocation begins only once the one
   before it has returned nil, and no job is ever held by two workers. *)
ExecEvents(j) == Only(trace[j], "Execute")
C3_SequentialAscending ==
    /\ \A j \in Submitted :
         LET E == ExecEvents(j)
         IN \A i \in 1..Len(E) :
              /\ (i % 2 = 1) => E[i].res = "begin"
              /\ (i % 2 = 0) => (E[i].res \in {"ok", "err"} /\ E[i].order = E[i-1].order)
              /\ (i % 2 = 1 /\ i > 1) => (E[i-1].res = "ok" /\ E[i].order > E[i-2].order)
    /\ \A w \in Workers :
         pc[w] \in {"loop", "execute"} =>
            LET E == ExecEvents(cur[w])
                begun == (Len(E) + 1) \div 2
            IN /\ \A k \in 1..(Len(actions[w]) - 1) :
                     actions[w][k].OrderIndex < actions[w][k+1].OrderIndex
               /\ begun = IF pc[w] = "execute" THEN idx[w] ELSE idx[w] - 1
               /\ \A k \in 1..begun : E[2*k - 1].order = actions[w][k].OrderIndex
    /\ \A j \in Submitted : Cardinality(HeldBy(j)) <= 1

\* a job ran a chain of two actions to the end: order index 2, then order index 7
C3_Witness ==
    \E j \in Submitted :
        /\ Acked(j) = "true"
        /\ ExecEvents(j) = << Ev("Execute", 2, "begin"), Ev("Execute", 2, "ok"),
                              Ev("Execute", 7, "begin"), Ev("Execute", 7, "ok") >>

(* C4: when the executor of an action returns an error, process returns at once: for
   that job no registry lookup and no executor invocation follows, the chain is not
   fetched or run again, the job's error names the failing action's type and order
   index, and the job is acknowledged false. *)
C4_FailFast ==
    /\ \A j \in Submitted :
         \A i \in 1..Len(trace[j]) :
            (trace[j][i].op = "Execute" /\ trace[j][i].res = "err")
               => /\ \A k \in (i+1)..Len(trace[j]) :
                        trace[j][k].op \in {"LogExecution", "MsgAck"}
                  /\ Count(j, "GetRelayActions") = 1
                  /\ Acked(j) \in {"none", "false"}
    /\ \A w \in Workers :
         (cur[w] # 0 /\ Has(cur[w], "Execute", "err"))
            => /\ pc[w] \in {"defer", "ack"}
               /\ err[w] = ExecErr(actions[w][idx[w]].ActionType,
                                   actions[w][idx[w]].OrderIndex)
               /\ \E i \in 1..Len(trace[cur[w]]) :
                     /\ trace[cur[w]][i] = Ev("Execute", err[w].order, "err")
               /\ \E a \in relay_actions :
                     /\ a.relay_id = Job(w).RelayID
                     /\ a.order_index = err[w].order
                     /\ a.action_type = err[w].type

\* the first action of a chain failed: the second was never invoked, the job was
\* acknowledged false
C4_Witness ==
    \E j \in Submitted :
        /\ jobs[j].RelayID = "r1"
        /\ ExecEvents(j) = << Ev("Execute", 2, "begin"), Ev("Execute", 2, "err") >>
        /\ Acked(j) = "false"

(* C5: exactly one audit write is attempted for every job that got past the dedup
   gate (claim succeeded or event id empty), whatever the outcome, and it has been
   attempted by the time the job is acknowledged; none is attempted for a job that
   was skipped as a duplicate or whose dedup insert failed. *)
C5_OneAuditWrite ==
    /\ \A j \in Submitted :
         /\ Count(j, "LogExecution") <= 1
         /\ ~PassedGate(j) => Count(j, "LogExecution") = 0
         /\ (Acked(j) # "none" /\ PassedGate(j) /\ HeldBy(j) = {})
               => Count(j, "LogExecution") = 1
    /\ \A w \in Workers :
         pc[w] = "ack" =>
            Count(cur[w], "LogExecution") = IF PassedGate(cur[w]) THEN 1 ELSE 0

\* one job failed on an unknown action type and was logged once; another failed in the
\* dedup insert and was not logged
C5_Witness ==
    \E j1, j2 \in Submitted :
        /\ Has(j1, "Get", "notfound") /\ Acked(j1) = "false"
        /\ Count(j1, "LogExecution") = 1
        /\ Has(j2, "RegisterEvent", "err") /\ Acked(j2) = "false"
        /\ Count(j2, "LogExecution") = 0

(* C6: every audit record is the record of a job that got past the dedup gate and
   carries that job's relay id, event id and payload, status "success" when the
   whole chain succeeded and "failed" otherwise, and on failure the error text. *)
IsErrorText(t) ==
    \E a \in relay_actions :
        t \in { ErrorText(ExecErr(a.action_type, a.order_index)),
                ErrorText(PluginErr(a.action_type)),
                ErrorText(FetchErr), ErrorText(ErrNoActions) }
C6_AuditFields ==
    \A row \in BagToSet(execution_logs) :
        \E j \in Submitted :
            /\ Has(j, "LogExecution", "ok")
            /\ row.relay_id = jobs[j].RelayID
            /\ row.event_id = jobs[j].EventID
            /\ row.payload = jobs[j].Payload
            /\ \/ row.status = "success" /\ ChainSucceeded(j)
               \/ row.status = "failed" /\ ~ChainSucceeded(j)
                    /\ IsErrorText(row.error_message)

(* C7: the boolean given to a job's MsgAck is true exactly when the job was skipped
   as a duplicate or its whole action chain succeeded; a dedup storage error, a fetch
   error, no actions, an unknown action type and an executor failure all give false. *)
FailureSeen(j) ==
    \/ Has(j, "RegisterEvent", "err")
    \/ Has(j, "GetRelayActions", "err")
    \/ Has(j, "GetRelayActions", "noactions")
    \/ Has(j, "Get", "notfound")
    \/ Has(j, "Execute", "err")
C7_AckValue ==
    \A j \in Submitted :
        /\ Acked(j) # "none" =>
             ((Acked(j) = "true") <=> (Has(j, "RegisterEvent", "dup") \/ ChainSucceeded(j)))
        /\ FailureSeen(j) => Acked(j) \in {"none", "false"}
        /\ Acked(j) = "false" => FailureSeen(j)

\* one job ran its whole chain and was acknowledged true, another found no actions and
\* was acknowledged false
C7_Witness ==
    \E j1, j2 \in Submitted :
        /\ ChainSucceeded(j1) /\ Acked(j1) = "true"
        /\ Has(j2, "GetRelayActions", "noactions") /\ Acked(j2) = "false"

(* C8: MsgAck is called exactly once per dequeued job: a job is still queued (nothing
   done for it), or held by exactly one worker and not yet acknowledged, or finished
   with exactly one MsgAck, the last call made for it; a worker back at its select
   holds no job, so the acknowledge precedes its next dequeue. *)
InQueue(j) == \E i \in 1..Len(JobQueue) : JobQueue[i] = j
C8_AckOnce ==
    /\ \A j \in Submitted :
         /\ Count(j, "MsgAck") <= 1
         /\ \/ InQueue(j) /\ HeldBy(j) = {} /\ trace[j] = <<>>
            \/ ~InQueue(j) /\ Cardinality(HeldBy(j)) = 1 /\ Count(j, "MsgAck") = 0
            \/ /\ ~InQueue(j) /\ HeldBy(j) = {} /\ Count(j, "MsgAck") = 1
               /\ trace[j][Len(trace[j])].op = "MsgAck"
    /\ \A w \in Workers :
         (pc[w] \in {"unstarted", "select", "exited"}) <=> (cur[w] = 0)

\* both jobs of a run have been processed and acknowledged, one with false and one with
\* true, and every worker is back at its select
C8_Witness ==
    /\ Len(jobs) = MaxJobs
    /\ \E j1, j2 \in Submitted : Acked(j1) = "false" /\ Acked(j2) = "true"
    /\ \A j \in Submitted : Count(j, "MsgAck") = 1
    /\ \A w \in Workers : pc[w] = "select"

(* C9 (as stated): after a job with a non-empty event id has been acknowledged false,
   for whatever cause, a later redelivery of the same pair is skipped: nothing is
   run or logged for it and it is acknowledged true. *)
Redelivery(j1, j2) ==
    /\ j1 \in ackedBefore[j2]
    /\ SamePair(j1, j2)
    /\ jobs[j1].EventID # ""
    /\ Acked(j1) = "false"
C9_RedeliverySkipped ==
    \A j1, j2 \in Submitted :
        Redelivery(j1, j2) =>
            /\ NothingRun(j2)
            /\ Acked(j2) \in {"none", "true"}

(* C9 (amended): after a job with a non-empty event id that had obtained the dedup
   claim has been acknowledged false (fetch error, no actions, unknown action type,
   executor failure), a later redelivery of the same pair never gets past the gate:
   nothing is run or logged for it, and it is acknowledged true unless its own dedup
   insert fails with a storage error, which acknowledges it false. *)
C9_RedeliveryAfterClaimSkipped ==
    \A j1, j2 \in Submitted :
        (Redelivery(j1, j2) /\ Claimed(j1)) =>
            /\ NothingRun(j2)
            /\ ~Claimed(j2)
            /\ Acked(j2) # "none" =>
                 Acked(j2) = IF Has(j2, "RegisterEvent", "err") THEN "false" ELSE "true"

\* a job claimed, failed in an executor and was acknowledged false; its redelivery was
\* skipped and acknowledged true
C9_Witness ==
    \E j1, j2 \in Submitted :
        /\ Redelivery(j1, j2) /\ Claimed(j1) /\ Has(j1, "Execute", "err")
        /\ trace[j2] = << Ev("RegisterEvent", 0, "dup"), Ev("MsgAck", 0, "true") >>

(* C10: when the dedup insert fails with a storage error the job fails at that step:
   no actions are fetched, no executor is looked up or invoked, no audit write is
   attempted, and the job is acknowledged false. *)
C10_DedupError ==
    /\ \A j \in Submitted :
         Has(j, "RegisterEvent", "err") =>
            /\ NothingRun(j)
            /\ trace[j] \in { << Ev("RegisterEvent", 0, "err") >>,
                              << Ev("RegisterEvent", 0, "err"), Ev("MsgAck", 0, "false") >> }
    /\ \A w \in Workers :
         (cur[w] # 0 /\ Has(cur[w], "RegisterEvent", "err"))
            => (pc[w] = "ack" /\ err[w] = DedupeErr)

\* a job whose dedup insert failed has been acknowledged false, with nothing logged
C10_Witness ==
    \E j \in Submitted :
        /\ trace[j] = << Ev("RegisterEvent", 0, "err"), Ev("MsgAck", 0, "false") >>
        /\ execution_logs = EmptyBag

(* C11 (as stated): a job with an empty event id bypasses the dedup gate entirely: no
   RegisterEvent call is made for it and no marker is stored for its pair, and every
   delivery of such a job, once acknowledged, has run the action chain and has
   produced its own audit record. *)
EmptyEventJobs == {j \in Submitted : jobs[j].EventID = ""}
NoDedup(j) ==
    /\ Count(j, "RegisterEvent") = 0
    /\ <<jobs[j].RelayID, jobs[j].EventID>> \notin processed_events
\* the audit writes that succeeded, over all jobs
AuditWritesDone ==
    UNION { {<<j, i>> : i \in {k \in 1..Len(trace[j]) :
                                 trace[j][k] = Ev("LogExecution", 0, "ok")}} :
            j \in Submitted }
NoActionsRelay(j) == SelectActions(relays, relay_actions, jobs[j].RelayID) = {}
\* everything of C12 but the audit record
NoActionsRejected(j) ==
    /\ ErrNoActions # FetchErr
    /\ ~Has(j, "GetRelayActions", "ok")
    /\ Count(j, "Get") = 0
    /\ Count(j, "Execute") = 0
    /\ Acked(j) \in {"none", "false"}
    /\ \A w \in HeldBy(j) :
          (pc[w] \in {"defer", "ack"}) =>
             err[w] = IF Has(j, "GetRelayActions", "noactions") THEN ErrNoActions
                      ELSE FetchErr
\* the audit row of a failed job says so
RecordedAsFailed(j) ==
    Has(j, "LogExecution", "ok") =>
        \E row \in BagToSet(execution_logs) :
            row.relay_id = jobs[j].RelayID /\ row.status = "failed"
C12_NoActionsFails ==
    \A j \in Submitted :
        (NoActionsRelay(j) /\ PassedGate(j)) => (NoActionsRejected(j) /\ RecordedAsFailed(j))

\* C12 without the audit record's content
C12_Rejection == \A j \in Submitted : (NoActionsRelay(j) /\ PassedGate(j)) => NoActionsRejected(j)

\* a job of the inactive relay found no actions, was logged and acknowledged false
C12_Reached ==
    \E j \in Submitted :
        /\ jobs[j].RelayID = "r3"
        /\ Has(j, "GetRelayActions", "noactions")
        /\ Has(j, "LogExecution", "ok")
        /\ Acked(j) = "false"

(* C13: when the action at position k of a job's chain has a type the registry does not
   know, the job aborts there: the executors of the actions before k were invoked in
   order and returned nil (the chain is not validated before it starts), the failed
   lookup is the last lookup or invocation made for the job, no executor is invoked
   for position k or later and none is substituted, the job is acknowledged false, and
   the audit record written for it has status "failed". *)
\* the positions in job j's trace of a registry lookup that found no executor
NotFoundAt(j) == {i \in 1..Len(trace[j]) : trace[j][i].op = "Get"}
\* the fetched chain of job j's relay
ChainOf(j) == OrderByIndex(SelectActions(relays, relay_actions, jobs[j].RelayID))
\* everything of C13 but the audit record
AbortsAtUnknown(j) ==
    \A i \in NotFoundAt(j) :
        LET chain == ChainOf(j)
            k == CHOOSE n \in 1..Len(chain) : chain[n].OrderIndex = trace[j][i].order
        IN /\ ~RegistryHas(chain[k].ActionType)
           /\ \A n \in 1..(k - 1) : RegistryHas(chain[n].ActionType)
           /\ ExecEvents(j) =
                 [n \in 1..(2 * (k - 1)) |->
                    Ev("Execute", chain[(n + 1) \div 2].OrderIndex,
                       IF n % 2 = 1 THEN "begin" ELSE "ok")]
           /\ \A n \in (i + 1)..Len(trace[j]) : trace[j][n].op \in {"LogExecution", "MsgAck"}
           /\ Count(j, "Get") = 1
           /\ Acked(j) \in {"none", "false"}
           /\ \A w \in HeldBy(j) :
                 pc[w] \in {"defer", "ack"} /\ err[w] = PluginErr(chain[k].ActionType)
C13_UnknownTypeAborts ==
    \A j \in Submitted : AbortsAtUnknown(j) /\ (NotFoundAt(j) # {} => RecordedAsFailed(j))

\* C13 without the audit record's content
C13_Abort == \A j \in Submitted : AbortsAtUnknown(j)

\* a job of relay r2 ran its first action, found no executor for "sms_send" at order
\* index 2, was logged and acknowledged false
C13_Reached ==
    \E j \in Submitted :
        /\ Len(trace[j]) > 2
        /\ trace[j][Len(trace[j]) - 2] = Ev("Get", 2, "notfound")
        /\ ExecEvents(j) = << Ev("Execute", 1, "begin"), Ev("Execute", 1, "ok") >>
        /\ Has(j, "LogExecution", "ok")
        /\ Acked(j) = "false"

(* C14: a failure of the audit write never changes the job's result: whether
   LogExecution succeeded or failed, the boolean given to MsgAck is true exactly when
   the whole chain succeeded, process's result is still what it was before the write,
   and the worker goes back to its select: no worker has returned unless wp.ctx is
   done or the queue is closed. *)
C14_AuditFailureKeepsResult ==
    /\ \A j \in Submitted :
         (Count(j, "LogExecution") > 0 /\ Acked(j) # "none")
            => ((Acked(j) = "true") <=> ChainSucceeded(j))
    /\ \A w \in Workers :
         pc[w] = "ack" /\ Count(cur[w], "LogExecution") > 0
            => /\ AckValue(err[w]) <=> ChainSucceeded(cur[w])
               /\ FailureSeen(cur[w]) <=> (err[w] # NoErr)
    /\ \A w \in Workers : pc[w] = "exited" => (cancelled \/ closed)

\* the chain of a job succeeded, its audit write failed, it was acknowledged true; a
\* job delivered after that has been dequeued and no worker has returned
C14_Witness ==
    \E j1, j2 \in Submitted :
        /\ ChainSucceeded(j1) /\ Has(j1, "LogExecution", "err") /\ Acked(j1) = "true"
        /\ execution_logs = EmptyBag
        /\ j1 \in ackedBefore[j2] /\ trace[j2] # <<>>
        /\ \A w \in Workers : pc[w] # "exited"

(* C15: if wp.ctx becomes done while a job that got past the dedup gate is being
   processed, the job's audit write is still attempted exactly once by the time the
   job is acknowledged, the write never fails because wp.ctx is done (its context has
   its own timeout and is not derived from wp.ctx), and the job is acknowledged
   exactly once. *)
\* wp.ctx was done while job j, past the gate, was held: it is done now, or it was
\* when the job's audit write was issued
DoneWhileProcessed(j) ==
    /\ PassedGate(j)
    /\ \/ HeldBy(j) # {} /\ cancelled
       \/ seen[j].log
C15_AuditWriteSurvivesCancel ==
    \A j \in Submitted :
        DoneWhileProcessed(j) =>
            /\ Count(j, "LogExecution") <= 1
            /\ Count(j, "MsgAck") <= 1
            /\ ~Has(j, "LogExecution", "ctx")
            /\ \A w \in HeldBy(j) :
                  pc[w] = "ack" => Count(j, "LogExecution") = 1
            /\ HeldBy(j) = {} =>
                  (Count(j, "LogExecution") = 1 /\ Count(j, "MsgAck") = 1)

\* a job was received and claimed while wp.ctx was live; wp.ctx was done when its audit
\* write was issued; the write succeeded and the job was acknowledged
C15_Witness ==
    \E j \in Submitted :
        /\ Claimed(j)
        /\ ~seen[j].recv /\ seen[j].log
        /\ Has(j, "LogExecution", "ok")
        /\ BagCardinality(execution_logs) = 1
        /\ Count(j, "MsgAck") = 1

(* C16: a worker returns only from its select, and only when wp.ctx is done or the
   queue is closed and empty; the step a worker takes from its acknowledge adds one
   MsgAck to the trace of the job it holds, with false when process returned an
   error, changes the trace of no other job, and leaves the worker at its select. *)
C16_WorkerSurvivesFailure ==
    [][ \A w \in Workers :
          /\ (pc[w] # "exited" /\ pc'[w] = "exited")
                => /\ pc[w] = "select"
                   /\ cancelled \/ (closed /\ JobQueue = <<>>)
          /\ (pc[w] = "ack" /\ pc'[w] # "ack")
                => /\ pc'[w] = "select"
                   /\ trace'[cur[w]] = trace[cur[w]]
                         \o <<Ev("MsgAck", 0, IF err[w] = NoErr THEN "true" ELSE "false")>>
                   /\ \A j \in JobIds \ {cur[w]} : trace'[j] = trace[j]
      ]_vars

\* a job failed and was acknowledged false; a job delivered after that has been
\* processed to the end, and every worker is at its select with the pool running
C16_Witness ==
    \E j1, j2 \in Submitted :
        /\ Acked(j1) = "false"
        /\ j1 \in ackedBefore[j2] /\ Acked(j2) = "true" /\ ChainSucceeded(j2)
        /\ \A w \in Workers : pc[w] = "select"
        /\ ~cancelled /\ ~closed

(* C17: Shutdown signals cancellation, then closes the queue, and returns only after
   every spawned worker has returned; once it has returned no call is made for any job,
   no table changes and no worker moves; and, every store call and executor call
   returning, a Shutdown call that has begun eventually returns. *)
ShutdownOrder ==
    /\ shutdownPc # "idle" => (started => cancelled)
    /\ shutdownPc \in {"wait", "done"} => closed
    /\ shutdownPc = "done" => \A w \in Workers : pc[w] \in {"unstarted", "exited"} /\ cur[w] = 0
QuietAfterShutdown ==
    shutdownPc = "done" => (trace' = trace /\ dbVars' = dbVars /\ wVars' = wVars)
C17_ShutdownWaits ==
    /\ []ShutdownOrder
    /\ [][QuietAfterShutdown]_vars
    /\ (shutdownPc # "idle") ~> (shutdownPc = "done")

\* Shutdown was called while a job was being processed: the job was finished and
\* acknowledged, both workers returned, and Shutdown has returned
C17_Witness ==
    /\ shutdownPc = "done"
    /\ started
    /\ \A w \in Workers : pc[w] = "exited"
    /\ \E j \in Submitted : ~seen[j].recv /\ seen[j].log /\ Acked(j) # "none"

(* C18: Shutdown drains the queue at best: a worker at its select with wp.ctx done and
   a job buffered can take either case, the return and the receive; once every worker
   has returned, the jobs still in the queue have had nothing done for them, and from
   then on nothing is: no call, no acknowledge, no audit row. *)
AllReturned == started /\ \A w \in Workers : pc[w] = "exited"
C18_BestEffortDrain ==
    /\ [](\A w \in Workers :
            (pc[w] = "select" /\ cancelled /\ JobQueue # <<>>)
               => (ENABLED WorkerDone(w) /\ ENABLED WorkerRecv(w)))
    /\ [](AllReturned => \A j \in Submitted : InQueue(j) => trace[j] = <<>>)
    /\ [][AllReturned =>
            /\ trace' = trace /\ execution_logs' = execution_logs
            /\ \A j \in Submitted : InQueue(j) => InQueue(j)']_vars

\* two jobs were sent before Shutdown was called; after wp.ctx was done a worker
\* received the first and processed it to its acknowledge; then both workers returned
\* and Shutdown returned with the second job still in the queue, nothing done for it
C18_Witness ==
    /\ shutdownPc = "done"
    /\ AllReturned
    /\ \E j1, j2 \in Submitted :
          /\ ~seen[j1].sent /\ seen[j1].recv /\ Acked(j1) # "none"
          /\ ~seen[j2].sent /\ InQueue(j2) /\ trace[j2] = <<>>
          /\ \A row \in BagToSet(execution_logs) : row.relay_id # jobs[j2].RelayID

(* C19: Start spawns exactly MaxWorkers workers and waits for no job: before Start no
   worker runs and Start can be taken whatever the queue holds, after it MaxWorkers
   workers have been spawned; at every moment at most MaxWorkers jobs are held; a job
   is held by at most one worker, is not in the queue while held or once finished, is
   in the queue at most once, and a worker that receives a job receives the head of
   the queue, a job nothing has been done for and no other worker holds. *)
SpawnedWorkers == {w \in Workers : pc[w] # "unstarted"}
HeldJobs == {j \in Submitted : HeldBy(j) # {}}
WorkersAndJobs ==
    /\ Cardinality(SpawnedWorkers) = IF started THEN MaxWorkers ELSE 0
    /\ (~started /\ shutdownPc = "idle") => ENABLED Start
    /\ Cardinality(HeldJobs) <= MaxWorkers
    /\ \A j \in Submitted :
          /\ Cardinality(HeldBy(j)) <= 1
          /\ Cardinality({i \in 1..Len(JobQueue) : JobQueue[i] = j}) <= 1
          /\ (HeldBy(j) # {} \/ trace[j] # <<>>) => ~InQueue(j)
DequeuedOnce ==
    \A w \in Workers :
        (cur[w] = 0 /\ cur'[w] # 0)
            => /\ JobQueue # <<>> /\ cur'[w] = Head(JobQueue)
               /\ trace[cur'[w]] = <<>>
               /\ HeldBy(cur'[w]) = {}
               /\ \A v \in Workers \ {w} : cur'[v] # cur'[w]
               /\ \A i \in 1..Len(JobQueue') : JobQueue'[i] # cur'[w]
C19_FixedWorkers == []WorkersAndJobs /\ [][DequeuedOnce]_vars

\* Start was taken with nothing in the queue; later both workers hold a job, each its
\* own, and the queue is empty
C19_Witness ==
    /\ Cardinality(SpawnedWorkers) = MaxWorkers
    /\ \A j \in Submitted : ackedBefore[j] = {} /\ HeldBy(j) # {}
    /\ Cardinality(HeldJobs) = MaxWorkers
    /\ \A w \in Workers : pc[w] = "execute"
    /\ JobQueue = <<>>

(* C20: the job queue is bounded: it never holds more than its capacity of 100 jobs; a
   send is possible exactly when the buffer is not full, so a producer at a full queue
   is blocked until a worker has received a job; and while the pool runs no job is
   dropped: every job sent is in the queue, or held by a worker, or acknowledged, the
   queue keeps the order of sending, and a job leaves the queue only into the hands of
   a worker. *)
QueueBounded ==
    /\ Len(JobQueue) <= QueueCap
    /\ Len(jobs) < MaxSent => (ENABLED SubmitQueue <=> Len(JobQueue) < QueueCap)
NoJobDropped ==
    LET queued == {JobQueue[i] : i \in 1..Len(JobQueue)}
        held == {cur[w] : w \in Workers} \ {0}
        acked == {j \in Submitted : trace[j] = <<Ev("MsgAck", 0, "false")>>}
    IN /\ queued \cup held \cup acked = Submitted
       /\ queued \cap held = {} /\ queued \cap acked = {} /\ held \cap acked = {}
       /\ \A j \in queued \cup held : trace[j] = <<>>
       /\ \A i \in 1..(Len(JobQueue) - 1) : JobQueue[i] < JobQueue[i + 1]
LeavesQueueToWorker ==
    IF Len(JobQueue') < Len(JobQueue)
    THEN /\ JobQueue' = Tail(JobQueue)
         /\ \E w \in Workers : cur[w] = 0 /\ cur'[w] = Head(JobQueue)
    ELSE SubSeq(JobQueue', 1, Len(JobQueue)) = JobQueue
C20_BoundedQueue ==
    /\ [](QueueBounded /\ NoJobDropped)
    /\ [][LeavesQueueToWorker]_vars

\* the producer filled the queue to its capacity, a worker received and acknowledged
\* the first job, and the producer's next send filled the queue again
C20_Witness ==
    /\ Len(JobQueue) = QueueCap
    /\ Len(jobs) = QueueCap + 1
    /\ Acked(1) = "false"
    /\ ~ENABLED SubmitQueue

(* ------------------------------------------------ the Slack executor *)
\* One call of Sender.Execute, followed statement by statement.  The engine stands
\* still meanwhile: the call is what a worker does between ExecuteBegin and
\* ExecuteReturn for an action of type slack_send.

\* the loop bound and the factor of the delay
MaxAttempts == 3
BackoffUnit == 200

\* what cfg can hold under "webhook_url": nothing, a string, or a value of another type
Configs ==
    { [present |-> FALSE, type |-> "", val |-> ""],
      [present |-> TRUE, type |-> "string", val |-> ""],
      [present |-> TRUE, type |-> "number", val |-> "42"],
      [present |-> TRUE, type |-> "string", val |-> "https://hooks.slack.test/T1"],
      [present |-> TRUE, type |-> "string", val |-> "%zz"] }

\* the strings net/url cannot parse
Unparsable == {"%zz"}

\* the status of a response; 0 stands for client.Do returning an error (no response)
StatusCodes == {199, 200, 299, 300, 400, 429, 499, 500, 503}
NoResponse == 0
DoResults == StatusCodes \cup {NoResponse}

\* (mutant) the value is taken whatever its type
WebhookURLUnchecked(c) == IF c.present THEN c.val ELSE ""
\* webhookURL, _ := cfg["webhook_url"].(string): the zero value unless a string is there
WebhookURL(c) == IF c.present /\ c.type = "string" THEN c.val ELSE ""

\* (mutant) every status from 400 up is tried again
ClassifyRetryFrom400(status) ==
    IF status >= 400 THEN "retry"
    ELSE IF status >= 200 /\ status < 300 THEN "success"
    ELSE "fatal"
\* the three branches on resp.StatusCode
Classify(status) ==
    IF status = 429 \/ status >= 500 THEN "retry"
    ELSE IF status >= 200 /\ status < 300 THEN "success"
    ELSE "fatal"

\* (mutant) an error of client.Do ends the call
OutcomeTransportFatal(result) == IF result = NoResponse THEN "fatal" ELSE Classify(result)
\* doErr # nil sets lastErr and falls through to the sleep, as a retryable status does
Outcome(result) == IF result = NoResponse THEN "retry" ELSE Classify(result)

\* the text of doErr
DoErr(done) == IF done THEN "context canceled" ELSE "connection refused"
\* the text lastErr is set to
AttemptErr(result, done) ==
    IF result = NoResponse THEN DoErr(done) ELSE "slack returned " \o ToString(result)
\* the texts Execute returns
MissingURLErr == "missing webhook_url in slack action config"
BuildRequestErr == "build request: parse error"
NonRetryableErr(status) == "slack returned non-retryable status " \o ToString(status)
AfterRetriesErr(last) == "slack send failed after retries: " \o last

\* the argument of time.Sleep after the attempt numbered a (0-based), in milliseconds
Backoff(a) == BackoffUnit * (a + 1)

\* (mutant) a fourth attempt is made
LoopContinuesOnceMore(a) == a < MaxAttempts + 1
\* for attempt := range 3
LoopContinues(a) == a < MaxAttempts

\* what client.Do can give: nothing but an error once ctx is done
DoCanGive(result) == execCtxDone => result = NoResponse

InitSlack ==
    /\ InitWith(JobIds)
    /\ NoRequest
    /\ cfg \in Configs
    /\ execCtxDone \in BOOLEAN
    /\ epc = "check"
    /\ attempt = 0
    /\ lastErr = ""
    /\ posts = <<>>
    /\ sleeps = <<>>
    /\ ret = ""

\* lines 28-47: the configuration check; building the body changes nothing and
\* json.Marshal of a map with one string cannot fail
CheckConfig ==
    /\ epc = "check"
    /\ IF WebhookURL(cfg) = ""
       THEN /\ ret' = MissingURLErr
            /\ epc' = "returned"
       ELSE /\ epc' = "attempt"
            /\ ret' = ret
    /\ UNCHANGED <<cfg, execCtxDone, attempt, lastErr, posts, sleeps>>
    /\ UNCHANGED engineVars
    /\ UNCHANGED apiVars

\* lines 51-68: one pass of the loop body up to the sleep
Attempt(result) ==
    /\ epc = "attempt"
    /\ IF WebhookURL(cfg) \in Unparsable
       THEN /\ ret' = BuildRequestErr
            /\ epc' = "returned"
            /\ UNCHANGED <<posts, lastErr>>
       ELSE /\ DoCanGive(result)
            /\ posts' = Append(posts, result)
            /\ CASE Outcome(result) = "retry" ->
                       /\ lastErr' = AttemptErr(result, execCtxDone)
                       /\ epc' = "sleep"
                       /\ ret' = ret
                 [] Outcome(result) = "success" ->
                       /\ ret' = "nil"
                       /\ epc' = "returned"
                       /\ lastErr' = lastErr
                 [] OTHER ->
                       /\ ret' = NonRetryableErr(result)
                       /\ epc' = "returned"
                       /\ lastErr' = lastErr
    /\ UNCHANGED <<cfg, execCtxDone, attempt, sleeps>>
    /\ UNCHANGED engineVars
    /\ UNCHANGED apiVars

\* lines 69-71: the sleep that ends every pass that did not return, the loop
\* condition, and the return after the loop
Sleep ==
    /\ epc = "sleep"
    /\ sleeps' = Append(sleeps, Backoff(attempt))
    /\ attempt' = attempt + 1
    /\ IF LoopContinues(attempt + 1)
       THEN /\ epc' = "attempt"
            /\ ret' = ret
       ELSE /\ epc' = "returned"
            /\ ret' = AfterRetriesErr(lastErr)
    /\ UNCHANGED <<cfg, execCtxDone, lastErr, posts>>
    /\ UNCHANGED engineVars
    /\ UNCHANGED apiVars

\* the caller's context (wp.ctx) is cancelled while the call runs
CtxCancel ==
    /\ epc \notin {"none", "returned"}
    /\ ~execCtxDone
    /\ execCtxDone' = TRUE
    /\ UNCHANGED <<cfg, epc, attempt, lastErr, posts, sleeps, ret>>
    /\ UNCHANGED engineVars
    /\ UNCHANGED apiVars

NextSlack ==
    \/ CheckConfig
    \/ \E result \in DoResults : Attempt(result)
    \/ Sleep
    \/ CtxCancel

SpecSlack == InitSlack /\ [][NextSlack]_vars

(* --------------------------------------- properties of the Slack executor *)
Returned == epc = "returned"
Is2xx(st) == st >= 200 /\ st < 300
RetryableStatus(st) == st = 429 \/ st >= 500
\* an attempt that is tried again: a retryable response, or no response at all
RetriedAttempt(st) == st = NoResponse \/ RetryableStatus(st)
\* this step is a POST that got st
Posted(st) == posts' = Append(posts, st)
\* cfg has no usable webhook_url: absent, not a string, or the empty string
NoWebhookURL == ~cfg.present \/ cfg.type # "string" \/ cfg.val = ""

\* C22: Execute makes at most 3 POST attempts whatever the responses are; when
\* every response is 429 or 5xx it makes exactly 3 and returns the error that wraps
\* the last failure; when the first response is neither 2xx nor retryable it makes
\* exactly 1 attempt and returns an error without a retry.
C22_RetryBound ==
    /\ Len(posts) <= 3
    /\ (Returned /\ posts # <<>> /\ \A i \in 1..Len(posts) : RetryableStatus(posts[i]))
          => /\ Len(posts) = 3
             /\ ret = "slack send failed after retries: slack returned "
                         \o ToString(posts[3])
    /\ (posts # <<>> /\ posts[1] # NoResponse
           /\ ~Is2xx(posts[1]) /\ ~RetryableStatus(posts[1]))
          => /\ Returned
             /\ Len(posts) = 1
             /\ sleeps = <<>>
             /\ ret = "slack returned non-retryable status " \o ToString(posts[1])
C22_Witness ==
    /\ Returned
    /\ posts = <<500, 429, 503>>
    /\ ret = "slack send failed after retries: slack returned 503"

\* C23: for every status, a 2xx response ends the call with success at once; a 429
\* or a status >= 500 is retryable (another attempt follows while fewer than 3 were
\* made); every other status ends the call at once with an error.  So the call
\* succeeds exactly when one of the first three attempts got a 2xx and every
\* attempt before it was tried again.
C23_Classification ==
    /\ [][\A st \in StatusCodes : Posted(st) =>
             /\ Is2xx(st) => (Returned' /\ ret' = "nil")
             /\ RetryableStatus(st) => (~Returned' /\ ret' = "" /\ epc' = "sleep")
             /\ (~Is2xx(st) /\ ~RetryableStatus(st)) =>
                    (Returned' /\ ret' \notin {"", "nil"})]_vars
    /\ [][(epc = "sleep" /\ epc' # epc) =>
             (IF Len(posts) < 3 THEN epc' = "attempt" ELSE Returned')]_vars
    /\ [](Returned =>
             (ret = "nil" <=>
                 \E i \in 1..Len(posts) :
                     /\ i <= 3
                     /\ Is2xx(posts[i])
                     /\ \A k \in 1..(i - 1) : RetriedAttempt(posts[k])))
C23_Witness ==
    /\ Returned
    /\ posts = <<429, 500, 200>>
    /\ ret = "nil"

\* C24: when webhook_url is absent, empty or not a string, Execute returns an error
\* without making any POST and without any backoff delay.
C24_ConfigCheckFirst ==
    NoWebhookURL =>
        /\ posts = <<>>
        /\ sleeps = <<>>
        /\ epc \in {"check", "returned"}
        /\ Returned => ret = "missing webhook_url in slack action config"
C24_Witness ==
    /\ Returned
    /\ cfg.present /\ cfg.type = "number"
    /\ ret = "missing webhook_url in slack action config"
    /\ posts = <<>>
    /\ sleeps = <<>>

\* C27: delays are taken between consecutive attempts only: the k-th delay is
\* 200 ms * k, a call that has returned took one delay less than it made attempts,
\* so three failed attempts take exactly two delays.
C27_BackoffSchedule ==
    /\ \A k \in 1..Len(sleeps) : sleeps[k] = 200 * k
    /\ Len(sleeps) <= Len(posts)
    /\ (Returned /\ posts # <<>>) => Len(sleeps) = Len(posts) - 1
\* three failed attempts have been made and the call has returned
C27_Reached ==
    /\ Returned
    /\ posts = <<500, 500, 500>>
    /\ sleeps = <<200, 400, 600>>

\* C30: an attempt that gets no response (client.Do fails, as it does once ctx is
\* cancelled) uses up one of the 3 attempts and is followed by the backoff and,
\* while fewer than 3 were made, by another attempt, as a retryable response is;
\* a cancelled ctx does not end the call early; after 3 such failures the call
\* returns the error that wraps the last transport error.
C30_TransportFailureRetried ==
    /\ [][Posted(NoResponse) =>
             /\ epc' = "sleep"
             /\ ret' = ""
             /\ lastErr' = (IF execCtxDone THEN "context canceled"
                            ELSE "connection refused")]_vars
    /\ [][(epc = "attempt" /\ execCtxDone /\ cfg.val # "%zz") =>
             (Posted(NoResponse) /\ ~Returned')]_vars
    /\ [][(epc = "sleep" /\ epc' # epc /\ Len(posts) < 3) => epc' = "attempt"]_vars
    /\ [](Len(posts) <= 3)
    /\ []((Returned /\ posts = <<0, 0, 0>>) =>
             /\ lastErr \in {"context canceled", "connection refused"}
             /\ ret = "slack send failed after retries: " \o lastErr)
C30_Witness ==
    /\ Returned
    /\ execCtxDone
    /\ posts = <<0, 0, 0>>
    /\ sleeps # <<>>
    /\ ret = "slack send failed after retries: context canceled"

(* ------------------------------------------------ claims C21, C26, C28, C29 *)
\* C21: jobs leave the queue in the order they were sent (job numbers are the send
\* order): a job is never out of the queue while a job sent before it is still in
\* it, with two workers receiving; the queue holds its jobs in send order.  Only
\* the order of completion may differ.
C21_FifoDequeue ==
    /\ \A a, b \in Submitted : (a < b /\ ~InQueue(b)) => ~InQueue(a)
    /\ \A i, k \in 1..Len(JobQueue) : i < k => JobQueue[i] < JobQueue[k]
\* the job sent second is acknowledged while the job sent first, received before
\* it, is still being processed
C21_Witness ==
    /\ Len(jobs) = 2
    /\ Acked(2) # "none"
    /\ Acked(1) = "none"
    /\ HeldBy(1) # {}

\* the place of a call in the per-job protocol
Rank(op) ==
    CASE op = "RegisterEvent" -> 1
      [] op = "GetRelayActions" -> 2
      [] op \in {"Get", "Execute"} -> 3
      [] op = "LogExecution" -> 4
      [] op = "MsgAck" -> 5

\* C26: the calls made for a job come in the order dedup claim, action fetch,
\* registry lookups and executor invocations, audit write, acknowledge, each of
\* the claim, the fetch, the audit write and the acknowledge at most once.  For a
\* job with an event id no fetch, lookup or invocation is made unless the claim
\* came first and succeeded; the audit write is issued only after the last
\* executor has returned; the acknowledge of a job that passed the gate comes
\* only after the audit write attempt has returned.
C26_ProtocolOrder ==
    \A j \in Submitted :
        /\ \A i, k \in 1..Len(trace[j]) :
              i < k => Rank(trace[j][i].op) <= Rank(trace[j][k].op)
        /\ \A op \in {"RegisterEvent", "GetRelayActions", "LogExecution", "MsgAck"} :
              Count(j, op) <= 1
        /\ (jobs[j].EventID # "" /\ \E i \in 1..Len(trace[j]) : Rank(trace[j][i].op) \in {2, 3})
              => trace[j][1] = Ev("RegisterEvent", 0, "new")
        /\ \A i \in 1..Len(trace[j]) :
              trace[j][i].op = "LogExecution" =>
                  /\ i > 1
                  /\ trace[j][i - 1] # Ev("Execute", trace[j][i - 1].order, "begin")
                  /\ \E k \in 1..(i - 1) : trace[j][k].op = "GetRelayActions"
        /\ (PassedGate(j) /\ Count(j, "MsgAck") = 1)
              => /\ trace[j][Len(trace[j])].op = "MsgAck"
                 /\ Len(trace[j]) > 1
                 /\ trace[j][Len(trace[j]) - 1].op = "LogExecution"
\* a job went through all five steps, with both actions of its relay
C26_Witness ==
    \E j \in Submitted :
        /\ jobs[j].RelayID = "r1"
        /\ trace[j] = << Ev("RegisterEvent", 0, "new"), Ev("GetRelayActions", 2, "ok"),
                         Ev("Execute", 2, "begin"), Ev("Execute", 2, "ok"),
                         Ev("Execute", 7, "begin"), Ev("Execute", 7, "ok"),
                         Ev("LogExecution", 0, "ok"), Ev("MsgAck", 0, "true") >>

\* the calls the engine makes for a job
EngineCalls == {"RegisterEvent", "GetRelayActions", "Get", "Execute", "LogExecution", "MsgAck"}
\* every step keeps the markers, the audit records and what was done for each job
NothingUndone ==
    /\ processed_events \subseteq processed_events'
    /\ execution_logs \sqsubseteq execution_logs'
    /\ \A j \in DOMAIN trace :
          /\ Len(trace[j]) <= Len(trace'[j])
          /\ SubSeq(trace'[j], 1, Len(trace[j])) = trace[j]
\* the marker of every claim is present, and nothing but the protocol's calls was
\* made for any job (no call undoes an executed action)
MarkersKept ==
    \A j \in Submitted :
        /\ Claimed(j) => <<jobs[j].RelayID, jobs[j].EventID>> \in processed_events
        /\ \A i \in 1..Len(trace[j]) : trace[j][i].op \in EngineCalls

\* C28: the engine never rolls back: a claimed marker stays present through every
\* later outcome of its job, what executed actions did is not compensated, and
\* the dedup markers and the audit records only grow.
C28_NoRollback == []MarkersKept /\ [][NothingUndone]_vars
\* a claimed job ran its first action, failed in the second while the pool was being
\* cancelled, and was acknowledged false: its marker and the first action stay
C28_Witness ==
    \E j \in Submitted :
        /\ Claimed(j)
        /\ ExecEvents(j) = << Ev("Execute", 2, "begin"), Ev("Execute", 2, "ok"),
                              Ev("Execute", 7, "begin"), Ev("Execute", 7, "err") >>
        /\ seen[j].log
        /\ Acked(j) = "false"
        /\ <<jobs[j].RelayID, jobs[j].EventID>> \in processed_events

(* ------------------------------------------------- dedup specification *)
\* The running pool with deliveries over two relays and two event ids, three of
\* them, so that a pair, a pair with the same event id and another relay, and a
\* pair with the same relay and another event id are processed side by side.
MaxPairs == 3
DedupRelays == {"r2", "r3"}
DedupEvents == {"e1", "e2"}

InitDedup == InitWith(1..MaxPairs) /\ NoExecuteCall /\ NoRequest

SubmitDedup(r, e) ==
    /\ Send([RelayID |-> r, EventID |-> e, Payload |-> "p1"], MaxPairs)
    /\ ackedBefore' = Append(ackedBefore, {j \in 1..Len(jobs) : Acked(j) # "none"})

NextDedup ==
    \/ \E r \in DedupRelays, e \in DedupEvents : SubmitDedup(r, e)
    \/ Start
    \/ \E w \in Workers : WorkerRecv(w)
    \/ \E w \in Workers : RegisterEvent(w)
    \/ \E w \in Workers : GetRelayActions(w)
    \/ \E w \in Workers : ExecuteBegin(w)
    \/ \E w \in Workers, ok \in BOOLEAN : ExecuteReturn(w, ok)
    \/ \E w \in Workers : LogExecution(w)
    \/ \E w \in Workers : MsgAck(w)

SpecDedup == InitDedup /\ [][NextDedup]_vars

\* C29: dedup is keyed on the pair (relay id, event id), not on the event id alone:
\* a delivery is skipped as a duplicate only when another delivery of the same
\* pair holds the claim, never because of a delivery for another relay with the
\* same event id or for the same relay with another event id; the markers stored
\* are exactly the pairs claimed; every delivery whose claim succeeded passes the
\* gate (its actions are fetched).
C29_KeyedOnPair ==
    /\ \A j \in Submitted :
          /\ Has(j, "RegisterEvent", "dup")
                => \E k \in Submitted \ {j} : SamePair(k, j) /\ Claimed(k)
          /\ (Has(j, "RegisterEvent", "new") \/ Has(j, "RegisterEvent", "dup"))
                => \E k \in Submitted : SamePair(k, j) /\ Claimed(k)
          /\ (Claimed(j) /\ Count(j, "MsgAck") = 1) => Count(j, "GetRelayActions") = 1
    /\ processed_events =
          {<<jobs[j].RelayID, jobs[j].EventID>> : j \in {k \in Submitted : Claimed(k)}}
\* three deliveries: (R, E), the same event id for another relay, and the same relay
\* with another event id; all three claimed and fetched their actions
C29_Witness ==
    /\ Len(jobs) = 3
    /\ jobs[1].RelayID # jobs[2].RelayID /\ jobs[1].EventID = jobs[2].EventID
    /\ jobs[1].RelayID = jobs[3].RelayID /\ jobs[1].EventID # jobs[3].EventID
    /\ \A j \in 1..3 : Claimed(j) /\ Count(j, "GetRelayActions") = 1 /\ Acked(j) # "none"

(* -------------------------------------------------- edit specification *)
\* The running pool while a relay is edited in the database the worker reads:
\* hermes-core deletes the relay, or the relay's is_active column is set.
EditRelays == {"r1"}

\* RelayStore.DeleteRelay: DELETE FROM relays WHERE id = $1, for a relay that is there;
\* the rows of relay_actions, execution_logs and processed_events that reference it
\* go with it (ON DELETE CASCADE)
DeleteFromRelays(r) ==
    /\ relays' = [x \in DOMAIN relays \ {r} |-> relays[x]]
    /\ relay_actions' = {a \in relay_actions : a.relay_id # r}
    /\ processed_events' = {m \in processed_events : m[1] # r}
    /\ execution_logs' =
          [row \in {x \in DOMAIN execution_logs : x.relay_id # r} |-> execution_logs[row]]

\* hermes-core deletes a relay that is there
DeleteRelay(r) ==
    /\ r \in DOMAIN relays
    /\ DeleteFromRelays(r)
    /\ UNCHANGED <<srcVars, poolVars, wVars, trace, seen>>
    /\ UNCHANGED slackVars
    /\ UNCHANGED apiVars

\* the relay's is_active column is set to another value
SetActive(r, b) ==
    /\ r \in DOMAIN relays
    /\ relays[r] # b
    /\ relays' = [relays EXCEPT ![r] = b]
    /\ UNCHANGED <<relay_actions, processed_events, execution_logs>>
    /\ UNCHANGED <<srcVars, poolVars, wVars, trace, seen>>
    /\ UNCHANGED slackVars
    /\ UNCHANGED apiVars

NextEdit ==
    \/ \E r \in EditRelays, e \in EventIDs, p \in Payloads : Submit(r, e, p)
    \/ Start
    \/ \E r \in EditRelays : DeleteRelay(r)
    \/ \E r \in EditRelays, b \in BOOLEAN : SetActive(r, b)
    \/ \E w \in Workers : WorkerRecv(w)
    \/ \E w \in Workers : RegisterEvent(w)
    \/ \E w \in Workers : GetRelayActions(w)
    \/ \E w \in Workers : ExecuteBegin(w)
    \/ \E w \in Workers, ok \in BOOLEAN : ExecuteReturn(w, ok)
    \/ \E w \in Workers : LogExecution(w)
    \/ \E w \in Workers : MsgAck(w)

SpecEdit == Init /\ [][NextEdit]_vars

\* the action rows a fetch for relay r finds right now
LiveRows(r) ==
    IF r \in DOMAIN relays /\ relays[r]
    THEN {a \in relay_actions : a.relay_id = r} ELSE {}
\* the list a worker holds, as a set of (order index, type)
Held(w) == {<<actions[w][i].OrderIndex, actions[w][i].ActionType>> : i \in 1..Len(actions[w])}
\* a fetch reads the tables as they are at that moment: it returns a list exactly
\* when rows are live, and then all of them
FetchIsFresh ==
    \A w \in Workers :
        (pc[w] = "fetch" /\ pc'[w] # "fetch" /\ ~Has(cur[w], "GetRelayActions", "err")')
            => IF LiveRows(jobs[cur[w]].RelayID) = {}
               THEN Has(cur[w], "GetRelayActions", "noactions")' /\ pc'[w] = "defer"
               ELSE /\ pc'[w] = "loop"
                    /\ Len(actions'[w]) = Cardinality(LiveRows(jobs[cur[w]].RelayID))
                    /\ Held(w)' = {<<a.order_index, a.action_type>> :
                                      a \in LiveRows(jobs[cur[w]].RelayID)}
\* the list a worker fetched stays what it is until the job's chain is over
SnapshotKept ==
    \A w \in Workers :
        (pc[w] \in {"loop", "execute"} /\ pc'[w] \in {"loop", "execute"})
            => (cur'[w] = cur[w] /\ actions'[w] = actions[w])
\* one fetch per job past the gate, and the executors invoked are the first
\* positions of the fetched list, all of it for a job acknowledged true
OneFetchOneChain ==
    /\ \A j \in Submitted :
          /\ Count(j, "GetRelayActions") <= 1
          /\ (PassedGate(j) /\ Count(j, "MsgAck") = 1) => Count(j, "GetRelayActions") = 1
          /\ Has(j, "MsgAck", "true") /\ PassedGate(j)
                => \E i \in 1..Len(trace[j]) :
                      /\ trace[j][i].op = "GetRelayActions" /\ trace[j][i].res = "ok"
                      /\ Len(ExecEvents(j)) = 2 * trace[j][i].order
    /\ \A w \in Workers :
          pc[w] \in {"loop", "execute"} =>
              LET E == ExecEvents(cur[w])
                  begun == (Len(E) + 1) \div 2
              IN /\ begun = IF pc[w] = "execute" THEN idx[w] ELSE idx[w] - 1
                 /\ begun <= Len(actions[w])
                 /\ \A k \in 1..begun : E[2*k - 1].order = actions[w][k].OrderIndex

\* C25: every job past the gate fetches the action list exactly once and executes
\* exactly that list: an edit of the relay (deleted, deactivated, activated) while
\* the job runs does not change the chain the job executes, and a job whose fetch
\* comes after the edit gets the list as edited (nothing is cached).
C25_SnapshotPerJob == []OneFetchOneChain /\ [][FetchIsFresh /\ SnapshotKept]_vars
\* a job is in its second action while its relay has no live rows any more, and
\* another job, fetched after the edit, was told there are no actions
C25_Witness ==
    \E w \in Workers, j2 \in Submitted :
        /\ pc[w] = "execute" /\ idx[w] = 2
        /\ LiveRows(jobs[cur[w]].RelayID) = {}
        /\ j2 # cur[w]
        /\ jobs[j2].RelayID = jobs[cur[w]].RelayID
        /\ Has(j2, "GetRelayActions", "noactions")

(* ------------------------------------------------ the relay CRUD API *)
\* hermes-core answers requests on one relay: Handler.GetRelay, Handler.UpdateRelay
\* and Handler.DeleteRelay over RelayStore.  The worker pool stands still meanwhile.
MaxRequests == 2

\* the ids asked for: the relays there are, and an id no relay has
ApiRelayIDs == RelayIDs \cup {"r9"}

\* a Go error value of the store: its text, and whether it is the package's
\* sentinel value or a value made by the call
ApiNil == [msg |-> "nil", sentinel |-> FALSE]
ErrRelayNotFound == [msg |-> "relay not found", sentinel |-> TRUE]
\* fmt.Errorf(text): a new value, with no %w of the sentinel in it
NewError(text) == [msg |-> text, sentinel |-> FALSE]
\* errors.Is(e, target): e is target, or wraps it; no error of the store wraps the
\* sentinel
ErrorsIs(e, target) == e = target

\* RelayStore.GetRelay: the error it returns
RelayStoreGetRelay(rel, id, dbFails) ==
    IF dbFails THEN NewError("query relay: db error")
    ELSE IF id \notin DOMAIN rel THEN NewError("relay not found")   \* pgx.ErrNoRows
    ELSE ApiNil

\* the bodies of PATCH requests: not JSON, no field, or a field to set
UpdateRequests == {"invalid_json", "no_fields", "is_active"}

\* RelayStore.UpdateRelay: the statement starts with UPDATEA and names its
\* parameters without $, so the server rejects it for every id
RelayStoreUpdateRelay(rel, id, dbFails) ==
    IF dbFails THEN NewError("update relay: db error")
    ELSE NewError("update relay: syntax error at or near UPDATEA")

\* RelayStore.DeleteRelay: the error it returns
RelayStoreDeleteRelay(rel, id, dbFails) ==
    IF dbFails THEN NewError("delete relay: db error")
    ELSE IF id \notin DOMAIN rel THEN NewError("relay not found")   \* RowsAffected() == 0
    ELSE ApiNil

\* what the three handlers write for the store's result e
Respond(e) ==
    IF e = ApiNil THEN [status |-> 200, code |-> ""]
    ELSE IF ErrorsIs(e, ErrRelayNotFound) THEN [status |-> 404, code |-> "NOT_FOUND"]
    ELSE [status |-> 500, code |-> "DB_ERROR"]

\* the request op for id was answered with r after the store returned e
Answer(op, id, e, r) ==
    responses' = Append(responses,
                        [op |-> op, id |-> id, existed |-> id \in DOMAIN relays,
                         storeErr |-> e, status |-> r.status, code |-> r.code])

HandlerGetRelay(id, dbFails) ==
    /\ Len(responses) < MaxRequests
    /\ LET e == RelayStoreGetRelay(relays, id, dbFails)
       IN Answer("GetRelay", id, e, Respond(e))
    /\ UNCHANGED engineVars
    /\ UNCHANGED slackVars

HandlerUpdateRelay(id, req, dbFails) ==
    /\ Len(responses) < MaxRequests
    /\ CASE req = "invalid_json" ->
               Answer("UpdateRelay", id, ApiNil, [status |-> 400, code |-> "INVALID_JSON"])
         [] req = "no_fields" ->
               Answer("UpdateRelay", id, ApiNil, [status |-> 400, code |-> "VALIDATION_ERROR"])
         [] OTHER ->
               LET e == RelayStoreUpdateRelay(relays, id, dbFails)
               IN Answer("UpdateRelay", id, e, Respond(e))
    /\ UNCHANGED engineVars
    /\ UNCHANGED slackVars

HandlerDeleteRelay(id, dbFails) ==
    /\ Len(responses) < MaxRequests
    /\ LET e == RelayStoreDeleteRelay(relays, id, dbFails)
       IN /\ Answer("DeleteRelay", id, e, Respond(e))
          /\ IF e = ApiNil
             THEN /\ DeleteFromRelays(id)
                  /\ UNCHANGED <<srcVars, poolVars, wVars, trace, seen>>
             ELSE UNCHANGED engineVars
    /\ UNCHANGED slackVars

NextApi ==
    \/ \E id \in ApiRelayIDs, dbFails \in BOOLEAN : HandlerGetRelay(id, dbFails)
    \/ \E id \in ApiRelayIDs, req \in UpdateRequests, dbFails \in BOOLEAN :
          HandlerUpdateRelay(id, req, dbFails)
    \/ \E id \in ApiRelayIDs, dbFails \in BOOLEAN : HandlerDeleteRelay(id, dbFails)

SpecApi == Init /\ [][NextApi]_vars

\* C31: a GetRelay, UpdateRelay or DeleteRelay request for an id no relay has,
\* for which the relay store reported that the relay was not found, is answered
\* with 404 NOT_FOUND and not with 500 DB_ERROR.
C31_NotFoundIs404 ==
    \A i \in 1..Len(responses) :
        (~responses[i].existed /\ responses[i].storeErr.msg = "relay not found")
            => (responses[i].status = 404 /\ responses[i].code = "NOT_FOUND")
\* GetRelay and DeleteRelay were asked for an id no relay has, the store reported
\* relay not found both times, and both were answered 500 DB_ERROR
C31_Reached ==
    /\ Len(responses) = 2
    /\ responses[1].op = "GetRelay" /\ responses[2].op = "DeleteRelay"
    /\ \A i \in 1..2 :
          /\ responses[i].id = "r9"
          /\ responses[i].storeErr.msg = "relay not found"
          /\ responses[i].status = 500
          /\ responses[i].code = "DB_ERROR"

====
